---- MODULE Spec2Model ----
(***************************************************************************)
(* State-machine model of the YaMDb REST API (api/models.py,               *)
(* api/permissions.py, api/views.py): the user registration and token      *)
(* flow, the permission classes, the catalog / review / comment CRUD       *)
(* handlers with their on_delete rules, and the Avg rating annotation.     *)
(***************************************************************************)
EXTENDS Integers, Sequences, FiniteSets, TLC

(* ------------------------------ bounds --------------------------------- *)
MaxUsers == 4
MaxCodes == 2
MaxInFlight == 2
MaxCategories == 1
MaxGenres == 1
MaxTitles == 2
MaxReviews == 2
MaxComments == 1

UserIds == 1..MaxUsers
CategoryIds == 1..MaxCategories
GenreIds == 1..MaxGenres
TitleIds == 1..MaxTitles
ReviewIds == 1..MaxReviews
CommentIds == 1..MaxComments

(* e-mail addresses a client may register, and the operator account *)
Emails == {"a", "b"}
RootEmail == "root"
(* scores a client may send; the validators accept 1..10 *)
Scores == {1, 4, 11}
(* category = NULL *)
NoCategory == 0
(* confirmation_code = '' (blank=True) *)
Blank == 0
(* Avg over no rows is NULL *)
Null == <<>>

VARIABLES users, requests, nextCode,
          categories, genres, titles, reviews, comments, resp

vars == <<users, requests, nextCode,
          categories, genres, titles, reviews, comments, resp>>
contentVars == <<categories, genres, titles, reviews, comments>>

(* ------------------------------ User ----------------------------------- *)
UserRoles == {"user", "moderator", "admin"}

moderator(u) == u.role = "moderator"

admin(u) == u.role = "admin"

(* request.user of an unauthenticated request *)
AnonymousUser ==
    [id |-> 0, is_authenticated |-> FALSE, role |-> "", is_staff |-> FALSE]

(* request.user of a request authenticated as the stored user pk *)
RequestUser(pk) ==
    [id |-> pk, is_authenticated |-> TRUE,
     role |-> users[pk].role, is_staff |-> users[pk].is_staff]

Subjects == {AnonymousUser} \cup {RequestUser(pk) : pk \in DOMAIN users}

(* a row inserted by User.objects.create(email, username, code, is_active) *)
NewUser(email, code) ==
    [email |-> email, username |-> email, confirmation_code |-> code,
     is_active |-> FALSE, role |-> "user", is_staff |-> FALSE]

(* the account made by createsuperuser *)
Superuser ==
    [email |-> RootEmail, username |-> RootEmail, confirmation_code |-> Blank,
     is_active |-> TRUE, role |-> "user", is_staff |-> TRUE]

NextPk(rows, ids) == CHOOSE i \in ids \ DOMAIN rows :
                        \A j \in ids \ DOMAIN rows : i <= j

(* the number of rows a delete() reports as deleted *)
Deleted(before, after) == Cardinality(DOMAIN before \ DOMAIN after)

(* the table without the rows deleted *)
Remove(rows, gone) == [i \in DOMAIN rows \ gone |-> rows[i]]

ByEmail(email) == {pk \in DOMAIN users : users[pk].email = email}

(* what every handler answers with; the fields a handler does not use keep
   these values *)
NoResp ==
    [op |-> "", status |-> 0, user |-> AnonymousUser, email |-> "",
     code |-> Blank, target |-> 0, author |-> 0, rating |-> Null,
     deleted |-> 0, error |-> "", racing |-> FALSE]

(* --------------------------- permissions ------------------------------- *)
SAFE_METHODS == {"GET", "HEAD", "OPTIONS"}

(* rest_framework.permissions.IsAuthenticated *)
IsAuthenticated(user) == user.is_authenticated

(* rest_framework.permissions.IsAuthenticatedOrReadOnly *)
IsAuthenticatedOrReadOnly(method, user) ==
    method \in SAFE_METHODS \/ user.is_authenticated

IsAdmin(user) ==
    IF user.is_authenticated THEN user.is_staff \/ admin(user) ELSE FALSE

(* fault: a moderator passes as well *)
IsAdminOrReadOnlyModerator(method, user) ==
    IF method \in SAFE_METHODS THEN TRUE
    ELSE IF user.is_authenticated
    THEN user.is_staff \/ admin(user) \/ moderator(user)
    ELSE FALSE

IsAdminOrReadOnly(method, user) ==
    IF method \in SAFE_METHODS THEN TRUE
    ELSE IF user.is_authenticated THEN user.is_staff \/ admin(user)
    ELSE FALSE

IsAuthorOrStaffOrReadOnly(method, user, author) ==
    \/ method \in SAFE_METHODS
    \/ author = user.id
    \/ admin(user)
    \/ moderator(user)

(* 401 for a request without credentials, 403 otherwise *)
Denied(user) == IF user.is_authenticated THEN 403 ELSE 401

(* ---------------- ObtainingConfirmationCodeView.post ------------------- *)
(* a request being handled: where it is, its e-mail, its uuid4, and whether
   another request for the same e-mail was being handled at the same time *)
NewRequest(email, code, racing) ==
    [pc |-> "get", email |-> email, code |-> code, racing |-> racing]

(* User.objects.get(email=, username=, confirmation_code=, is_active=False) *)
GetUser(email, code) ==
    {pk \in DOMAIN users :
        /\ users[pk].email = email
        /\ users[pk].username = email
        /\ users[pk].confirmation_code = code
        /\ users[pk].is_active = FALSE}

(* the unique constraints of email and username *)
UniqueViolation(email, username) ==
    \E pk \in DOMAIN users :
        users[pk].email = email \/ users[pk].username = username

Goto(req, pc) == (requests \ {req}) \cup {[req EXCEPT !.pc = pc]}

(* the response that ends the request *)
CodeResponse(req, status, error) ==
    [NoResp EXCEPT !.op = "code", !.status = status, !.email = req.email,
                   !.code = req.code, !.error = error,
                   !.racing = req.racing]

(* lines 101-104: validate the e-mail, draw a fresh uuid4 *)
PostBegin(email) ==
    /\ Cardinality(requests) < MaxInFlight
    /\ nextCode <= MaxCodes
    /\ LET same == {req \in requests : req.email = email}
       IN requests' = (requests \ same)
                      \cup {[req EXCEPT !.racing = TRUE] : req \in same}
                      \cup {NewRequest(email, nextCode, same # {})}
    /\ nextCode' = nextCode + 1
    /\ resp' = [NoResp EXCEPT !.op = "code"]
    /\ UNCHANGED <<users, contentVars>>

(* get_or_create: the first self.get *)
GetOrCreateGet(req) ==
    /\ req.pc = "get"
    /\ requests' = Goto(req, IF GetUser(req.email, req.code) # {}
                             THEN "send_mail" ELSE "create")
    /\ resp' = [NoResp EXCEPT !.op = "code"]
    /\ UNCHANGED <<users, nextCode, contentVars>>

(* get_or_create: self.create inside transaction.atomic *)
GetOrCreateCreate(req) ==
    /\ req.pc = "create"
    /\ IF UniqueViolation(req.email, req.email)
       THEN /\ requests' = Goto(req, "reget")
            /\ users' = users
       ELSE /\ requests' = Goto(req, "send_mail")
            /\ users' = users @@
                 (NextPk(users, UserIds) :> NewUser(req.email, req.code))
    /\ resp' = [NoResp EXCEPT !.op = "code"]
    /\ UNCHANGED <<nextCode, contentVars>>

(* get_or_create: after IntegrityError, self.get again, and the
   IntegrityError re-raised when it finds nothing *)
GetOrCreateRetry(req) ==
    /\ req.pc = "reget"
    /\ IF GetUser(req.email, req.code) # {}
       THEN /\ requests' = Goto(req, "send_mail")
            /\ resp' = [NoResp EXCEPT !.op = "code"]
       ELSE /\ requests' = requests \ {req}
            /\ resp' = CodeResponse(req, 500, "IntegrityError")
    /\ UNCHANGED <<users, nextCode, contentVars>>

(* fault: the row of the e-mail is taken back when delivery fails *)
SendMailRollback(req, delivered) ==
    /\ req.pc = "send_mail"
    /\ requests' = requests \ {req}
    /\ resp' = IF delivered THEN CodeResponse(req, 200, "")
               ELSE CodeResponse(req, 500, "SMTPException")
    /\ users' = IF delivered THEN users
                ELSE Remove(users, ByEmail(req.email))
    /\ UNCHANGED <<nextCode, contentVars>>

(* send_mail(..., fail_silently=False) and the 200 response *)
SendMail(req, delivered) ==
    /\ req.pc = "send_mail"
    /\ requests' = requests \ {req}
    /\ resp' = IF delivered THEN CodeResponse(req, 200, "")
               ELSE CodeResponse(req, 500, "SMTPException")
    /\ UNCHANGED <<users, nextCode, contentVars>>

(* --------------------------- TokenView.post ---------------------------- *)
(* TokenSerializer.is_valid: the presented code is the stored one *)
TokenSerializerIsValid(email, code) ==
    /\ code # Blank
    /\ \A pk \in ByEmail(email) : users[pk].confirmation_code = code

(* fault: the result of is_valid is not looked at *)
TokenPostUnchecked(email, code) ==
    /\ IF ByEmail(email) = {}
       THEN /\ resp' = [NoResp EXCEPT !.op = "token", !.status = 404,
                                      !.email = email, !.code = code]
            /\ users' = users
       ELSE LET pk == CHOOSE u \in ByEmail(email) : TRUE
            IN /\ users' = [users EXCEPT ![pk] = users[pk]]
               /\ resp' = [NoResp EXCEPT !.op = "token", !.status = 200,
                              !.email = email, !.code = code, !.target = pk]
    /\ UNCHANGED <<requests, nextCode, contentVars>>

(* is_valid(raise_exception=True), get_object_or_404, user.save() with no
   field changed, RefreshToken.for_user *)
TokenPost(email, code) ==
    /\ IF ~TokenSerializerIsValid(email, code)
       THEN /\ resp' = [NoResp EXCEPT !.op = "token", !.status = 400,
                                      !.email = email, !.code = code]
            /\ users' = users
       ELSE IF ByEmail(email) = {}
       THEN /\ resp' = [NoResp EXCEPT !.op = "token", !.status = 404,
                                      !.email = email, !.code = code]
            /\ users' = users
       ELSE LET pk == CHOOSE u \in ByEmail(email) : TRUE
            IN /\ users' = [users EXCEPT ![pk] = users[pk]]
               /\ resp' = [NoResp EXCEPT !.op = "token", !.status = 200,
                              !.email = email, !.code = code, !.target = pk]
    /\ UNCHANGED <<requests, nextCode, contentVars>>

(* ----------------------------- UserViewSet ----------------------------- *)
(* a field the partial request does not carry *)
Absent == ""

(* UserSerializer.is_valid(partial=True): role is a choice, username and
   email are unique among the other users *)
UserSerializerIsValid(pk, data) ==
    /\ data.role \in UserRoles \cup {Absent}
    /\ \A o \in DOMAIN users \ {pk} :
          /\ data.username = Absent \/ users[o].username # data.username
          /\ data.email = Absent \/ users[o].email # data.email

(* ModelSerializer.update: set every attribute that is present *)
UpdateUser(row, attrs) ==
    [row EXCEPT
       !.username = IF attrs.username = Absent THEN @ ELSE attrs.username,
       !.email = IF attrs.email = Absent THEN @ ELSE attrs.email,
       !.role = IF attrs.role = Absent THEN @ ELSE attrs.role]

(* fault: save() without the keyword arguments *)
MeSaveNoOverride(instance, validated) == UpdateUser(instance, validated)

(* serializer.save(email=instance.email, role=instance.role): the keyword
   arguments replace the validated values *)
MeSave(instance, validated) ==
    UpdateUser(instance, [validated EXCEPT !.email = instance.email,
                                           !.role = instance.role])

(* PATCH /users/me/ *)
MePatch(user, data) ==
    /\ IF ~IsAuthenticated(user)
       THEN /\ resp' = [NoResp EXCEPT !.op = "me_patch", !.user = user,
                                      !.status = Denied(user)]
            /\ users' = users
       ELSE IF ~UserSerializerIsValid(user.id, data)
       THEN /\ resp' = [NoResp EXCEPT !.op = "me_patch", !.user = user,
                                      !.status = 400, !.target = user.id]
            /\ users' = users
       ELSE /\ users' = [users EXCEPT ![user.id] = MeSave(@, data)]
            /\ resp' = [NoResp EXCEPT !.op = "me_patch", !.user = user,
                                      !.status = 200, !.target = user.id,
                                      !.email = data.email]
    /\ UNCHANGED <<requests, nextCode, contentVars>>

(* PATCH /users/{username}/ *)
UserPartialUpdate(user, pk, data) ==
    /\ pk \in DOMAIN users
    /\ IF ~IsAdmin(user)
       THEN /\ resp' = [NoResp EXCEPT !.op = "users_partial_update",
                           !.user = user, !.status = Denied(user),
                           !.target = pk]
            /\ users' = users
       ELSE IF ~UserSerializerIsValid(pk, data)
       THEN /\ resp' = [NoResp EXCEPT !.op = "users_partial_update",
                           !.user = user, !.status = 400, !.target = pk]
            /\ users' = users
       ELSE /\ users' = [users EXCEPT ![pk] = UpdateUser(@, data)]
            /\ resp' = [NoResp EXCEPT !.op = "users_partial_update",
                           !.user = user, !.status = 200, !.target = pk]
    /\ UNCHANGED <<requests, nextCode, contentVars>>

(* PATCH /users/{username}/ is above; DELETE /users/{username}/ removes the
   user, the reviews and comments the user wrote (on_delete=CASCADE), and
   the comments under those reviews *)
ReviewsOfAuthor(pk) == {r \in DOMAIN reviews : reviews[r].author = pk}

ReviewsOfTitle(t) == {r \in DOMAIN reviews : reviews[r].title = t}

CommentsOfAuthor(pk) == {c \in DOMAIN comments : comments[c].author = pk}

CommentsOfReviews(rs) == {c \in DOMAIN comments : comments[c].review \in rs}

DeleteUser(pk) ==
    LET rs == ReviewsOfAuthor(pk)
    IN /\ users' = Remove(users, {pk})
       /\ reviews' = Remove(reviews, rs)
       /\ comments' = Remove(comments,
                             CommentsOfAuthor(pk) \cup CommentsOfReviews(rs))

UserDestroy(user, pk) ==
    /\ IF ~IsAdmin(user)
       THEN /\ resp' = [NoResp EXCEPT !.op = "users_destroy", !.user = user,
                           !.status = Denied(user), !.target = pk]
            /\ UNCHANGED <<users, reviews, comments>>
       ELSE IF pk \notin DOMAIN users
       THEN /\ resp' = [NoResp EXCEPT !.op = "users_destroy", !.user = user,
                           !.status = 404, !.target = pk]
            /\ UNCHANGED <<users, reviews, comments>>
       ELSE /\ DeleteUser(pk)
            /\ resp' = [NoResp EXCEPT !.op = "users_destroy", !.user = user,
                           !.status = 204, !.target = pk,
                           !.deleted = Deleted(users, users')
                                       + Deleted(reviews, reviews')
                                       + Deleted(comments, comments')]
    /\ UNCHANGED <<requests, nextCode, categories, genres, titles>>

(* ------------------- CategoryViewSet / GenreViewSet -------------------- *)
(* slug = uuid.uuid1 when the request gives none: a token no other row has *)
NewSlug(pk) == [slug |-> pk]

CategoryList(user) ==
    /\ resp' = [NoResp EXCEPT !.op = "categories_list", !.user = user,
                  !.status = IF IsAdminOrReadOnly("GET", user)
                             THEN 200 ELSE Denied(user)]
    /\ UNCHANGED <<users, requests, nextCode, contentVars>>

CategoryCreate(user) ==
    /\ DOMAIN categories # CategoryIds
    /\ IF ~IsAdminOrReadOnly("POST", user)
       THEN /\ resp' = [NoResp EXCEPT !.op = "categories_create",
                           !.user = user, !.status = Denied(user)]
            /\ categories' = categories
       ELSE LET pk == NextPk(categories, CategoryIds)
            IN /\ categories' = categories @@ (pk :> NewSlug(pk))
               /\ resp' = [NoResp EXCEPT !.op = "categories_create",
                              !.user = user, !.status = 201, !.target = pk]
    /\ UNCHANGED <<users, requests, nextCode, genres, titles, reviews, comments>>

(* Title.category is on_delete=SET_NULL *)
DeleteCategory(c) ==
    /\ categories' = Remove(categories, {c})
    /\ titles' = [t \in DOMAIN titles |->
                    IF titles[t].category = c
                    THEN [titles[t] EXCEPT !.category = NoCategory]
                    ELSE titles[t]]

CategoryDestroy(user, c) ==
    /\ IF ~IsAdminOrReadOnly("DELETE", user)
       THEN /\ resp' = [NoResp EXCEPT !.op = "categories_destroy",
                           !.user = user, !.status = Denied(user),
                           !.target = c]
            /\ UNCHANGED <<categories, titles>>
       ELSE IF c \notin DOMAIN categories
       THEN /\ resp' = [NoResp EXCEPT !.op = "categories_destroy",
                           !.user = user, !.status = 404, !.target = c]
            /\ UNCHANGED <<categories, titles>>
       ELSE /\ DeleteCategory(c)
            /\ resp' = [NoResp EXCEPT !.op = "categories_destroy",
                           !.user = user, !.status = 204, !.target = c,
                           !.deleted = Deleted(categories, categories')
                                       + Deleted(titles, titles')]
    /\ UNCHANGED <<users, requests, nextCode, genres, reviews, comments>>

GenreList(user) ==
    /\ resp' = [NoResp EXCEPT !.op = "genres_list", !.user = user,
                  !.status = IF IsAdminOrReadOnly("GET", user)
                             THEN 200 ELSE Denied(user)]
    /\ UNCHANGED <<users, requests, nextCode, contentVars>>

GenreCreate(user) ==
    /\ DOMAIN genres # GenreIds
    /\ IF ~IsAdminOrReadOnly("POST", user)
       THEN /\ resp' = [NoResp EXCEPT !.op = "genres_create",
                           !.user = user, !.status = Denied(user)]
            /\ genres' = genres
       ELSE LET pk == NextPk(genres, GenreIds)
            IN /\ genres' = genres @@ (pk :> NewSlug(pk))
               /\ resp' = [NoResp EXCEPT !.op = "genres_create",
                              !.user = user, !.status = 201, !.target = pk]
    /\ UNCHANGED <<users, requests, nextCode, categories, titles, reviews,
                   comments>>

(* the rows of the many-to-many table go with the genre *)
DeleteGenre(g) ==
    /\ genres' = Remove(genres, {g})
    /\ titles' = [t \in DOMAIN titles |->
                    [titles[t] EXCEPT !.genre = @ \ {g}]]

GenreDestroy(user, g) ==
    /\ IF ~IsAdminOrReadOnly("DELETE", user)
       THEN /\ resp' = [NoResp EXCEPT !.op = "genres_destroy",
                           !.user = user, !.status = Denied(user),
                           !.target = g]
            /\ UNCHANGED <<genres, titles>>
       ELSE IF g \notin DOMAIN genres
       THEN /\ resp' = [NoResp EXCEPT !.op = "genres_destroy",
                           !.user = user, !.status = 404, !.target = g]
            /\ UNCHANGED <<genres, titles>>
       ELSE /\ DeleteGenre(g)
            /\ resp' = [NoResp EXCEPT !.op = "genres_destroy",
                           !.user = user, !.status = 204, !.target = g]
    /\ UNCHANGED <<users, requests, nextCode, categories, reviews, comments>>

(* ----------------------------- TitleViewSet ---------------------------- *)
RECURSIVE Gcd(_, _)
Gcd(a, b) == IF b = 0 THEN a ELSE Gcd(b, a % b)

(* the value of a quotient, as a fraction in lowest terms *)
Fraction(n, d) == <<n \div Gcd(n, d), d \div Gcd(n, d)>>

RECURSIVE SumScores(_)
SumScores(rs) ==
    IF rs = {} THEN 0
    ELSE LET r == CHOOSE x \in rs : TRUE
         IN reviews[r].score + SumScores(rs \ {r})

(* fault: the average of every review, whatever its title *)
AvgAllReviews(t) ==
    IF DOMAIN reviews = {} THEN Null
    ELSE Fraction(SumScores(DOMAIN reviews), Cardinality(DOMAIN reviews))

(* annotate(rating=Avg('reviews__score')): the reviews joined to the title,
   NULL when the join is empty *)
Avg(t) ==
    LET rows == ReviewsOfTitle(t)
    IN IF rows = {} THEN Null
       ELSE Fraction(SumScores(rows), Cardinality(rows))

TitleRetrieve(user, t) ==
    /\ IF ~IsAdminOrReadOnly("GET", user)
       THEN resp' = [NoResp EXCEPT !.op = "titles_retrieve", !.user = user,
                        !.status = Denied(user), !.target = t]
       ELSE IF t \notin DOMAIN titles
       THEN resp' = [NoResp EXCEPT !.op = "titles_retrieve", !.user = user,
                        !.status = 404, !.target = t]
       ELSE resp' = [NoResp EXCEPT !.op = "titles_retrieve", !.user = user,
                        !.status = 200, !.target = t, !.rating = Avg(t)]
    /\ UNCHANGED <<users, requests, nextCode, contentVars>>

TitleCreate(user, category, genre) ==
    /\ DOMAIN titles # TitleIds
    /\ category \in DOMAIN categories \cup {NoCategory}
    /\ genre \subseteq DOMAIN genres
    /\ IF ~IsAdminOrReadOnly("POST", user)
       THEN /\ resp' = [NoResp EXCEPT !.op = "titles_create", !.user = user,
                           !.status = Denied(user)]
            /\ titles' = titles
       ELSE LET pk == NextPk(titles, TitleIds)
            IN /\ titles' = titles @@
                     (pk :> [category |-> category, genre |-> genre])
               /\ resp' = [NoResp EXCEPT !.op = "titles_create",
                              !.user = user, !.status = 201, !.target = pk]
    /\ UNCHANGED <<users, requests, nextCode, categories, genres, reviews,
                   comments>>

TitlePartialUpdate(user, t, category) ==
    /\ category \in DOMAIN categories \cup {NoCategory}
    /\ IF ~IsAdminOrReadOnly("PATCH", user)
       THEN /\ resp' = [NoResp EXCEPT !.op = "titles_partial_update",
                           !.user = user, !.status = Denied(user),
                           !.target = t]
            /\ titles' = titles
       ELSE IF t \notin DOMAIN titles
       THEN /\ resp' = [NoResp EXCEPT !.op = "titles_partial_update",
                           !.user = user, !.status = 404, !.target = t]
            /\ titles' = titles
       ELSE /\ titles' = [titles EXCEPT ![t].category = category]
            /\ resp' = [NoResp EXCEPT !.op = "titles_partial_update",
                           !.user = user, !.status = 200, !.target = t]
    /\ UNCHANGED <<users, requests, nextCode, categories, genres, reviews,
                   comments>>

(* fault: the comments of the deleted reviews stay *)
DeleteTitleKeepComments(t) ==
    /\ titles' = Remove(titles, {t})
    /\ reviews' = Remove(reviews, ReviewsOfTitle(t))
    /\ comments' = comments

(* Review.title and Comment.review are on_delete=CASCADE *)
DeleteTitle(t) ==
    LET rs == ReviewsOfTitle(t)
    IN /\ titles' = Remove(titles, {t})
       /\ reviews' = Remove(reviews, rs)
       /\ comments' = Remove(comments, CommentsOfReviews(rs))

TitleDestroy(user, t) ==
    /\ IF ~IsAdminOrReadOnly("DELETE", user)
       THEN /\ resp' = [NoResp EXCEPT !.op = "titles_destroy", !.user = user,
                           !.status = Denied(user), !.target = t]
            /\ UNCHANGED <<titles, reviews, comments>>
       ELSE IF t \notin DOMAIN titles
       THEN /\ resp' = [NoResp EXCEPT !.op = "titles_destroy", !.user = user,
                           !.status = 404, !.target = t]
            /\ UNCHANGED <<titles, reviews, comments>>
       ELSE /\ DeleteTitle(t)
            /\ resp' = [NoResp EXCEPT !.op = "titles_destroy", !.user = user,
                           !.status = 204, !.target = t,
                           !.deleted = Deleted(titles, titles')
                                       + Deleted(reviews, reviews')
                                       + Deleted(comments, comments')]
    /\ UNCHANGED <<users, requests, nextCode, categories, genres>>

(* ---------------------------- ReviewViewSet ---------------------------- *)
MinScore == 1
MaxScore == 10

(* MinValueValidator(1), MaxValueValidator(10) *)
ValidScore(score) == MinScore <= score /\ score <= MaxScore

(* the author of the addressed row, 0 when the row does not exist *)
AuthorOf(rows, pk) == IF pk \in DOMAIN rows THEN rows[pk].author ELSE 0

ReviewCreate(user, t, score) ==
    /\ DOMAIN reviews # ReviewIds
    /\ IF ~IsAuthenticatedOrReadOnly("POST", user)
       THEN /\ resp' = [NoResp EXCEPT !.op = "reviews_create", !.user = user,
                           !.status = Denied(user)]
            /\ reviews' = reviews
       ELSE IF ~ValidScore(score)
       THEN /\ resp' = [NoResp EXCEPT !.op = "reviews_create", !.user = user,
                           !.status = 400]
            /\ reviews' = reviews
       ELSE IF t \notin DOMAIN titles
       THEN /\ resp' = [NoResp EXCEPT !.op = "reviews_create", !.user = user,
                           !.status = 404]
            /\ reviews' = reviews
       ELSE LET pk == NextPk(reviews, ReviewIds)
            IN /\ reviews' = reviews @@
                     (pk :> [title |-> t, author |-> user.id,
                             score |-> score])
               /\ resp' = [NoResp EXCEPT !.op = "reviews_create",
                              !.user = user, !.status = 201, !.target = pk,
                              !.author = user.id]
    /\ UNCHANGED <<users, requests, nextCode, categories, genres, titles,
                   comments>>

(* the answer of a request on one review: permission of the view, the
   queryset of the title, the object, then the permission on the object *)
ReviewObjectStatus(method, user, t, r, ok) ==
    IF ~IsAuthenticatedOrReadOnly(method, user) THEN Denied(user)
    ELSE IF t \notin DOMAIN titles THEN 404
    ELSE IF r \notin ReviewsOfTitle(t) THEN 404
    ELSE IF ~IsAuthorOrStaffOrReadOnly(method, user, reviews[r].author)
    THEN Denied(user)
    ELSE ok

ReviewPartialUpdate(user, t, r, score) ==
    LET status == ReviewObjectStatus("PATCH", user, t, r, 200)
    IN /\ IF status = 200 /\ ~ValidScore(score)
          THEN /\ resp' = [NoResp EXCEPT !.op = "reviews_partial_update",
                              !.user = user, !.status = 400, !.target = r,
                              !.author = AuthorOf(reviews, r)]
               /\ reviews' = reviews
          ELSE /\ resp' = [NoResp EXCEPT !.op = "reviews_partial_update",
                              !.user = user, !.status = status, !.target = r,
                              !.author = AuthorOf(reviews, r)]
               /\ reviews' = IF status = 200
                             THEN [reviews EXCEPT ![r].score = score]
                             ELSE reviews
       /\ UNCHANGED <<users, requests, nextCode, categories, genres, titles,
                      comments>>

ReviewDestroy(user, t, r) ==
    LET status == ReviewObjectStatus("DELETE", user, t, r, 204)
    IN /\ resp' = [NoResp EXCEPT !.op = "reviews_destroy", !.user = user,
                      !.status = status, !.target = r,
                      !.author = AuthorOf(reviews, r)]
       /\ IF status = 204
          THEN /\ reviews' = Remove(reviews, {r})
               /\ comments' = Remove(comments, CommentsOfReviews({r}))
          ELSE UNCHANGED <<reviews, comments>>
       /\ UNCHANGED <<users, requests, nextCode, categories, genres, titles>>

(* ---------------------------- CommentViewSet --------------------------- *)
CommentCreate(user, r) ==
    /\ DOMAIN comments # CommentIds
    /\ IF ~IsAuthenticatedOrReadOnly("POST", user)
       THEN /\ resp' = [NoResp EXCEPT !.op = "comments_create",
                           !.user = user, !.status = Denied(user)]
            /\ comments' = comments
       ELSE IF r \notin DOMAIN reviews
       THEN /\ resp' = [NoResp EXCEPT !.op = "comments_create",
                           !.user = user, !.status = 404]
            /\ comments' = comments
       ELSE LET pk == NextPk(comments, CommentIds)
            IN /\ comments' = comments @@
                     (pk :> [review |-> r, author |-> user.id])
               /\ resp' = [NoResp EXCEPT !.op = "comments_create",
                              !.user = user, !.status = 201, !.target = pk,
                              !.author = user.id]
    /\ UNCHANGED <<users, requests, nextCode, categories, genres, titles,
                   reviews>>

CommentObjectStatus(method, user, r, c, ok) ==
    IF ~IsAuthenticatedOrReadOnly(method, user) THEN Denied(user)
    ELSE IF r \notin DOMAIN reviews THEN 404
    ELSE IF c \notin CommentsOfReviews({r}) THEN 404
    ELSE IF ~IsAuthorOrStaffOrReadOnly(method, user, comments[c].author)
    THEN Denied(user)
    ELSE ok

(* the text of a comment is not part of the state: an update leaves the
   review and the author of the row as they are *)
CommentPartialUpdate(user, r, c) ==
    /\ resp' = [NoResp EXCEPT !.op = "comments_partial_update",
                  !.user = user,
                  !.status = CommentObjectStatus("PATCH", user, r, c, 200),
                  !.target = c, !.author = AuthorOf(comments, c)]
    /\ UNCHANGED <<users, requests, nextCode, contentVars>>

CommentDestroy(user, r, c) ==
    LET status == CommentObjectStatus("DELETE", user, r, c, 204)
    IN /\ resp' = [NoResp EXCEPT !.op = "comments_destroy", !.user = user,
                      !.status = status, !.target = c,
                      !.author = AuthorOf(comments, c)]
       /\ comments' = IF status = 204 THEN Remove(comments, {c})
                      ELSE comments
       /\ UNCHANGED <<users, requests, nextCode, categories, genres, titles,
                      reviews>>

(* ------------------- registration and token flow ----------------------- *)
PatchData == [username : {Absent, "c"},
              email : Emails \cup {Absent},
              role : {"admin"}]

RoleData == [username : {Absent}, email : {Absent},
             role : {"admin"}]

InitAuth ==
    /\ users = (1 :> Superuser)
    /\ requests = {}
    /\ nextCode = 1
    /\ categories = <<>>
    /\ genres = <<>>
    /\ titles = <<>>
    /\ reviews = <<>>
    /\ comments = <<>>
    /\ resp = NoResp

NextAuth ==
    \/ \E email \in Emails : PostBegin(email)
    \/ \E req \in requests : GetOrCreateGet(req)
    \/ \E req \in requests : GetOrCreateCreate(req)
    \/ \E req \in requests : GetOrCreateRetry(req)
    \/ \E req \in requests, delivered \in BOOLEAN : SendMail(req, delivered)
    \/ \E email \in Emails, code \in 1..MaxCodes : TokenPost(email, code)
    \/ \E user \in Subjects, data \in PatchData : MePatch(user, data)
    \/ \E user \in Subjects, pk \in UserIds, data \in RoleData :
          UserPartialUpdate(user, pk, data)

SpecAuth == InitAuth /\ [][NextAuth]_vars

(* -------------------------- permission engine -------------------------- *)
StoredUser(email, role, is_staff) ==
    [NewUser(email, Blank) EXCEPT !.is_active = TRUE, !.role = role,
                                  !.is_staff = is_staff]

(* a plain user, a moderator, an admin and a staff account without a role *)
PermUsers == <<StoredUser("a", "user", FALSE),
               StoredUser("b", "moderator", FALSE),
               StoredUser("c", "admin", FALSE),
               StoredUser(RootEmail, "user", TRUE)>>

InitContent(population) ==
    /\ users = [pk \in 1..Len(population) |-> population[pk]]
    /\ requests = {}
    /\ nextCode = 1
    /\ categories = <<>>
    /\ genres = <<>>
    /\ titles = <<>>
    /\ reviews = <<>>
    /\ comments = <<>>
    /\ resp = NoResp

InitPerm == InitContent(PermUsers)

(* one row of each kind is enough to decide a permission *)
NextPerm ==
    \/ \E user \in Subjects : CategoryList(user)
    \/ \E user \in Subjects : DOMAIN categories = {} /\ CategoryCreate(user)
    \/ \E user \in Subjects, c \in DOMAIN categories : CategoryDestroy(user, c)
    \/ \E user \in Subjects : GenreList(user)
    \/ \E user \in Subjects : DOMAIN genres = {} /\ GenreCreate(user)
    \/ \E user \in Subjects, g \in DOMAIN genres : GenreDestroy(user, g)
    \/ \E user \in Subjects, t \in DOMAIN titles : TitleRetrieve(user, t)
    \/ \E user \in Subjects :
          DOMAIN titles = {} /\ TitleCreate(user, NoCategory, {})
    \/ \E user \in Subjects, t \in DOMAIN titles :
          TitlePartialUpdate(user, t, NoCategory)
    \/ \E user \in Subjects, t \in DOMAIN titles : TitleDestroy(user, t)
    \/ \E user \in Subjects, t \in DOMAIN titles :
          DOMAIN reviews = {} /\ ReviewCreate(user, t, MinScore)
    \/ \E user \in Subjects, r \in DOMAIN reviews :
          ReviewPartialUpdate(user, reviews[r].title, r, MaxScore)
    \/ \E user \in Subjects, r \in DOMAIN reviews :
          ReviewDestroy(user, reviews[r].title, r)
    \/ \E user \in Subjects, r \in DOMAIN reviews :
          DOMAIN comments = {} /\ CommentCreate(user, r)
    \/ \E user \in Subjects, c \in DOMAIN comments :
          CommentPartialUpdate(user, comments[c].review, c)
    \/ \E user \in Subjects, c \in DOMAIN comments :
          CommentDestroy(user, comments[c].review, c)

SpecPerm == InitPerm /\ [][NextPerm]_vars

(* ------------------------ catalog, reviews, rating --------------------- *)
DataUsers == <<StoredUser("a", "user", FALSE),
               StoredUser("c", "admin", FALSE)>>

InitData == InitContent(DataUsers)

Authenticated == {RequestUser(pk) : pk \in DOMAIN users}

Admins == {user \in Authenticated : IsAdmin(user)}

(* the requests that change the store, from those allowed to make them
   (an admin for the catalog and the users, any user for reviews and
   comments), and the reads of a title *)
NextData ==
    \/ \E user \in Admins : CategoryCreate(user)
    \/ \E user \in Admins, c \in CategoryIds : CategoryDestroy(user, c)
    \/ \E t \in TitleIds : TitleRetrieve(AnonymousUser, t)
    \/ \E user \in Admins, c \in CategoryIds \cup {NoCategory} :
          TitleCreate(user, c, {})
    \/ \E user \in Admins, t \in TitleIds,
          c \in CategoryIds \cup {NoCategory} : TitlePartialUpdate(user, t, c)
    \/ \E user \in Admins, t \in TitleIds : TitleDestroy(user, t)
    \/ \E user \in Authenticated, t \in TitleIds, score \in Scores :
          ReviewCreate(user, t, score)
    \/ \E user \in Authenticated, t \in TitleIds, r \in ReviewIds,
          score \in Scores : ReviewPartialUpdate(user, t, r, score)
    \/ \E user \in Authenticated, t \in TitleIds, r \in ReviewIds :
          ReviewDestroy(user, t, r)
    \/ \E user \in Authenticated, r \in ReviewIds : CommentCreate(user, r)
    \/ \E user \in Authenticated, r \in ReviewIds, c \in CommentIds :
          CommentDestroy(user, r, c)
    \/ \E user \in Admins, pk \in UserIds : UserDestroy(user, pk)

SpecData == InitData /\ [][NextData]_vars

(* ------------------------------ properties ----------------------------- *)
(* the capabilities as the specification words them *)
canModerate(user) == user.role = "moderator"

canAdminister(user) == user.role = "admin" \/ user.is_staff

Refused(status) == status \in {401, 403}

ObjectMutations == {"reviews_partial_update", "reviews_destroy",
                    "comments_partial_update", "comments_destroy"}

CatalogReads == {"categories_list", "genres_list", "titles_retrieve"}

CatalogMutations == {"categories_create", "categories_destroy",
                     "genres_create", "genres_destroy", "titles_create",
                     "titles_partial_update", "titles_destroy"}

(* C1: an update or delete of an existing review or comment is allowed if
   and only if the subject is authenticated and is its author, a moderator,
   an admin or a staff account. *)
C1_MutationIffAuthorOrStaff ==
    (resp.op \in ObjectMutations /\ resp.author # 0 /\ resp.status # 404)
    => (~Refused(resp.status)
        <=> /\ resp.user.is_authenticated
            /\ \/ resp.author = resp.user.id
               \/ canModerate(resp.user)
               \/ canAdminister(resp.user))

(* C2: a token request is answered with a token only when the presented code
   is the code stored for the user of that e-mail; with any other code it is
   rejected and the users are left as they were. *)
C2_TokenOnlyForStoredCode ==
    [][resp'.op = "token" =>
         LET match == \E pk \in DOMAIN users :
                         /\ users[pk].email = resp'.email
                         /\ users[pk].confirmation_code = resp'.code
         IN /\ resp'.status = 200 => match
            /\ ~match => (resp'.status # 200 /\ users' = users)]_vars

C2_MismatchRejected ==
    /\ resp.op = "token"
    /\ resp.status = 400
    /\ \E pk \in DOMAIN users :
          /\ users[pk].email = resp.email
          /\ users[pk].confirmation_code \notin {Blank, resp.code}

(* C3: a code request that does not overlap another one for its e-mail
   completes without a database error and leaves its own code stored for
   that e-mail, whether or not a user was pending. *)
C3_LatestCodeStored ==
    (resp.op = "code" /\ resp.status # 0 /\ ~resp.racing)
    => /\ resp.error # "IntegrityError"
       /\ \E pk \in ByEmail(resp.email) :
             users[pk].confirmation_code = resp.code

(* C4: the user a token has just been issued to is active. *)
C4_ActiveAfterToken ==
    (resp.op = "token" /\ resp.status = 200)
    => users[resp.target].is_active

(* C5: every read of the catalog is allowed to every subject; a catalog
   mutation is allowed if and only if the subject is authenticated and is an
   admin or a staff account. *)
C5_CatalogPermissions ==
    /\ resp.op \in CatalogReads => ~Refused(resp.status)
    /\ resp.op \in CatalogMutations
       => (~Refused(resp.status)
           <=> (resp.user.is_authenticated /\ canAdminister(resp.user)))

C5_ModeratorRefused ==
    /\ resp.op \in CatalogMutations
    /\ resp.user.role = "moderator"
    /\ resp.status = 403

(* the scores of the reviews of title t, counted score by score *)
RECURSIVE ScoreTotal(_, _)
ScoreTotal(t, s) ==
    IF s < MinScore THEN 0
    ELSE s * Cardinality({r \in DOMAIN reviews :
                             reviews[r].title = t /\ reviews[r].score = s})
         + ScoreTotal(t, s - 1)

ReviewCount(t) == Cardinality({r \in DOMAIN reviews : reviews[r].title = t})

(* C6: a read of a title reports no rating when the title has no review, and
   otherwise the mean of the scores of the reviews of that title. *)
C6_RatingIsMean ==
    (resp.op = "titles_retrieve" /\ resp.status = 200)
    => IF ReviewCount(resp.target) = 0
       THEN resp.rating = Null
       ELSE /\ resp.rating # Null
            /\ resp.rating[1] * ReviewCount(resp.target)
               = resp.rating[2] * ScoreTotal(resp.target, MaxScore)

C6_MeanOfTwoScores ==
    /\ resp.op = "titles_retrieve"
    /\ resp.status = 200
    /\ \E r1, r2 \in DOMAIN reviews :
          /\ reviews[r1].title = resp.target
          /\ reviews[r2].title = resp.target
          /\ reviews[r1].score # reviews[r2].score
    /\ resp.rating # Null

NoDanglingReference ==
    /\ \A t \in DOMAIN titles :
          /\ titles[t].category \in DOMAIN categories \cup {NoCategory}
          /\ titles[t].genre \subseteq DOMAIN genres
    /\ \A r \in DOMAIN reviews :
          reviews[r].title \in DOMAIN titles
          /\ reviews[r].author \in DOMAIN users
    /\ \A c \in DOMAIN comments :
          comments[c].review \in DOMAIN reviews
          /\ comments[c].author \in DOMAIN users

(* C7: no row refers to a deleted row: after every step each review has its
   title and its author, each comment its review and its author, each title
   a category that exists or none; and deleting a category deletes no title
   and clears the category of exactly the titles that referred to it. *)
C7_NoDanglingReference ==
    [][/\ NoDanglingReference'
       /\ (resp'.op = "categories_destroy" /\ resp'.status = 204)
          => /\ DOMAIN titles' = DOMAIN titles
             /\ \A t \in DOMAIN titles :
                   titles'[t].category =
                      IF titles[t].category = resp'.target
                      THEN NoCategory ELSE titles[t].category]_vars

C7_TitleCascade ==
    /\ resp.op = "titles_destroy"
    /\ resp.status = 204
    /\ resp.deleted >= 3

(* C8: a user made by a code request has the role user; the role of a stored
   user changes only in an update of the users by a subject that is an admin
   or a staff account; a PATCH of 'me' leaves every role and e-mail as it
   was. *)
C8_RoleOnlyByAdmin ==
    [][/\ \A pk \in DOMAIN users' \ DOMAIN users :
             users'[pk].role = "user"
       /\ \A pk \in DOMAIN users' \cap DOMAIN users :
             users'[pk].role # users[pk].role
             => /\ resp'.op = "users_partial_update"
                /\ resp'.user.is_authenticated
                /\ canAdminister(resp'.user)
       /\ resp'.op = "me_patch"
          => /\ DOMAIN users' = DOMAIN users
             /\ \A pk \in DOMAIN users :
                   /\ users'[pk].role = users[pk].role
                   /\ users'[pk].email = users[pk].email]_vars

C8_MePatchWithOtherEmail ==
    /\ resp.op = "me_patch"
    /\ resp.status = 200
    /\ ~canAdminister(resp.user)
    /\ resp.email # Absent
    /\ resp.email # users[resp.target].email
    /\ users[resp.target].role = "user"

(* C9: a code request that overlaps another one for its e-mail completes
   without a database error, and one user has that e-mail. *)
C9_RacingRequestsBothSucceed ==
    (resp.op = "code" /\ resp.status # 0 /\ resp.racing)
    => /\ resp.error # "IntegrityError"
       /\ Cardinality(ByEmail(resp.email)) = 1

(* C10: when mail delivery is attempted the inactive user with the code of
   the request is already stored; a failed delivery is answered with an
   error and leaves every user as stored. *)
C10_RecordBeforeMailNoRollback ==
    [][/\ \A req \in requests' :
             req.pc = "send_mail"
             => \E pk \in DOMAIN users' :
                   /\ users'[pk].email = req.email
                   /\ users'[pk].confirmation_code = req.code
                   /\ ~users'[pk].is_active
       /\ (resp'.op = "code" /\ resp'.error = "SMTPException")
          => /\ resp'.status = 500
             /\ users' = users
             /\ \E pk \in DOMAIN users' :
                   /\ users'[pk].email = resp'.email
                   /\ users'[pk].confirmation_code = resp'.code
                   /\ ~users'[pk].is_active]_vars

C10_DeliveryFailed ==
    /\ resp.op = "code"
    /\ resp.error = "SMTPException"
    /\ \E pk \in ByEmail(resp.email) :
          /\ users[pk].confirmation_code = resp.code
          /\ ~users[pk].is_active

====
